---------------------------- MODULE Spec2Model ----------------------------
(***************************************************************************)
(* A model of ascii-image (src/main.rs): the on/off rules, the braille     *)
(* encoder, the parallel construction of the boolean matrix and the        *)
(* renderer, together with the command-line parsers that feed them.        *)
(*                                                                         *)
(* Conventions.  An Option<T> is a set with at most one element: None is   *)
(* {} and Some(v) is {v}.  A string is a sequence of tokens; a token is a  *)
(* single character, except that an alphabetic word is one token.  An      *)
(* image is a record [width, height, px] with px[y+1][x+1] the Rgba<u8>    *)
(* pixel at (x, y), a sequence of four bytes.  The standard output is the  *)
(* sequence of the Unicode scalar values written so far.                   *)
(***************************************************************************)
EXTENDS Integers, Sequences, FiniteSets, TLC

VARIABLES
    pc,      \* main's position, or the position of a single call
    argv,    \* the command line: [rule, size], both unparsed strings
    opts,    \* the parsed options: [rule, size]
    img,     \* the image main is working on
    mat,     \* the rows of the boolean matrix built so far
    rowbuf,  \* the output slots of the row being evaluated in parallel
    cur,     \* the loop counters of main: [x, y]
    out,     \* standard output
    call     \* the arguments and the result of a single call

vars == <<pc, argv, opts, img, mat, rowbuf, cur, out, call>>

-----------------------------------------------------------------------------
(* Bounds of the model. *)

\* Largest width and height of an image given to a single is_on call.
MaxW == 2
MaxH == 2
\* Largest Border distance given to a single is_on call.
MaxDist == 2
\* Largest cell coordinate given to a single region_braille call.
MaxCell == 1
\* Largest width, height and pixel count of an image main decodes.
MaxMainW == 3
MaxMainH == 5
MaxMainPixels == 8

-----------------------------------------------------------------------------
(* Option<T> *)

None == {}
Some(v) == {v}
unwrap_or(o, d) == IF o = {} THEN d ELSE CHOOSE v \in o : TRUE

(* Iterator::sum and Iterator::max over a sequence of integers. *)
RECURSIVE SumSeq(_)
SumSeq(s) == IF s = <<>> THEN 0 ELSE Head(s) + SumSeq(Tail(s))

RECURSIVE MaxSeq(_)
MaxSeq(s) ==
    IF s = <<>> THEN None
    ELSE LET m == MaxSeq(Tail(s))
         IN  IF m = None \/ Head(s) >= unwrap_or(m, 0) THEN Some(Head(s)) ELSE m

-----------------------------------------------------------------------------
(* The image: GenericImageView of a DynamicImage, whose pixels are Rgba<u8>. *)

in_bounds(image, x, y) == x < image.width /\ y < image.height

\* A pixel without channels marks the panic of get_pixel out of bounds.
get_pixel(image, x, y) ==
    IF y + 1 \in DOMAIN image.px /\ x + 1 \in DOMAIN image.px[y + 1]
    THEN image.px[y + 1][x + 1]
    ELSE <<>>

\* Pixel::to_rgb of an Rgba pixel: the alpha channel is dropped.
to_rgb(p) == SubSeq(p, 1, 3)

absdiff(a, b) == IF a > b THEN a - b ELSE b - a

-----------------------------------------------------------------------------
(* OnOffRule *)

PxThreshold(t) == [kind |-> "PxThreshold", threshold |-> t, distance |-> 0]
InvertedPxThreshold(t) == [kind |-> "InvertedPxThreshold", threshold |-> t, distance |-> 0]
Border(t, d) == [kind |-> "Border", threshold |-> t, distance |-> d]

\* [(-1, 0), (1, 0), (0, -1), (0, 1)].cartesian_product(1..=distance)
\*     .map(|(&(dx, dy), d)| (dx * d, dy * d)), in the iterator's order.
BorderOffsets(distance) ==
    LET dirs == << <<-1, 0>>, <<1, 0>>, <<0, -1>>, <<0, 1>> >>
        n == IF distance < 0 THEN 0 ELSE distance
    IN  [k \in 1..(4 * n) |->
            LET dir == dirs[((k - 1) \div n) + 1]
                d == ((k - 1) % n) + 1
            IN  <<dir[1] * d, dir[2] * d>>]

\* u32::try_from(v).unwrap_or(0)
ClampU32(v) == IF v < 0 THEN 0 ELSE v

\* Mutant of BorderNeighbour: ny is computed from x (a copy-paste slip).
BorderNeighbourFromX(image, x, y, off) ==
    LET nx == ClampU32(x + off[1])
        ny == ClampU32(x + off[2])
    IN  IF ~in_bounds(image, nx, ny) THEN None ELSE Some(<<nx, ny>>)

\* The neighbour a Border sample reads, or None when it is out of bounds.
BorderNeighbour(image, x, y, off) ==
    LET nx == ClampU32(x + off[1])
        ny == ClampU32(y + off[2])
    IN  IF ~in_bounds(image, nx, ny) THEN None ELSE Some(<<nx, ny>>)

\* Mutant of BorderDiffers: the comparison with the threshold is reversed.
BorderDiffersReversed(image, px, c, threshold) ==
    LET np == get_pixel(image, c[1], c[2])
        n == IF Len(np) < Len(px) THEN Len(np) ELSE Len(px)
        df == unwrap_or(MaxSeq([i \in 1..n |-> absdiff(np[i], px[i])]), 0)
    IN  df <= threshold

\* The closure given to any(): whether the neighbour at n differs from px enough.
BorderDiffers(image, px, c, threshold) ==
    LET np == get_pixel(image, c[1], c[2])
        \* zip() ends with the shorter of the two channel lists
        n == IF Len(np) < Len(px) THEN Len(np) ELSE Len(px)
        df == unwrap_or(MaxSeq([i \in 1..n |-> absdiff(np[i], px[i])]), 0)
    IN  df >= threshold

\* Iterator::any over the offsets from index k on: it stops at the first hit.
\* The result carries the pixels read on the way.
RECURSIVE BorderAny(_, _, _, _, _, _, _)
BorderAny(image, x, y, threshold, offs, k, reads) ==
    IF k > Len(offs) THEN [on |-> FALSE, reads |-> reads]
    ELSE LET n == BorderNeighbour(image, x, y, offs[k])
         IN  IF n = None
             THEN BorderAny(image, x, y, threshold, offs, k + 1, reads)
             ELSE LET c == unwrap_or(n, <<0, 0>>)
                  IN  IF BorderDiffers(image, get_pixel(image, x, y), c, threshold)
                      THEN [on |-> TRUE, reads |-> reads \cup {c}]
                      ELSE BorderAny(image, x, y, threshold, offs, k + 1,
                                     reads \cup {c})

\* Mutant of PxThresholdIsOn: a pixel whose sum is the threshold is off.
PxThresholdIsOnStrict(threshold, p) == threshold < SumSeq(p)

\* Mutant of PxThresholdIsOn: alpha is left out of the sum.
PxThresholdIsOnRgb(threshold, p) == threshold <= SumSeq(to_rgb(p))

PxThresholdIsOn(threshold, p) == threshold <= SumSeq(p)

\* Mutant of InvertedPxThresholdIsOn: alpha is counted in the sum.
InvertedPxThresholdIsOnRgba(threshold, p) == threshold >= SumSeq(p)

InvertedPxThresholdIsOn(threshold, p) == threshold >= SumSeq(to_rgb(p))

\* Mutant of IsOutside: outside only when both coordinates are.
IsOutsideBoth(image, x, y) == x >= image.width /\ y >= image.height

\* The guard of is_on's early return.
IsOutside(image, x, y) == ~in_bounds(image, x, y)

\* OnOffRule::is_on, with the set of the pixels it read.
is_on_call(rule, image, x, y) ==
    IF IsOutside(image, x, y) THEN [on |-> FALSE, reads |-> {}]
    ELSE CASE rule.kind = "PxThreshold" ->
                [on |-> PxThresholdIsOn(rule.threshold, get_pixel(image, x, y)),
                 reads |-> {<<x, y>>}]
           [] rule.kind = "InvertedPxThreshold" ->
                [on |-> InvertedPxThresholdIsOn(rule.threshold, get_pixel(image, x, y)),
                 reads |-> {<<x, y>>}]
           [] rule.kind = "Border" ->
                BorderAny(image, x, y, rule.threshold,
                          BorderOffsets(rule.distance), 1, {<<x, y>>})

is_on(rule, image, x, y) == is_on_call(rule, image, x, y).on


-----------------------------------------------------------------------------
(* Values shared by the specifications. *)

\* The images of at most W by H pixels over the pixels P.
ImagesOf(W, H, P) ==
    UNION {[width : {w}, height : {h}, px : [1..h -> [1..w -> P]]] :
               <<w, h>> \in (0..W) \X (0..H)}

NoArgv == [rule |-> <<>>, size |-> <<>>]
NoSize == [kind |-> "Default", width |-> 0, height |-> 0]
NoOpts == [rule |-> PxThreshold(0), size |-> NoSize]
NoImage == [width |-> 0, height |-> 0, px |-> <<>>]
NoCur == [x |-> 0, y |-> 0]
NoCall == [x |-> 0, y |-> 0]

-----------------------------------------------------------------------------
(* SpecRule: single calls of OnOffRule::is_on. *)

\* Pixels around the thresholds: sums 0, 100, 100, 355 and 1020; RulePxB and
\* RulePxC differ in alpha only, RulePxB and RulePxD by 1 in two channels.
RulePxA == <<0, 0, 0, 0>>
RulePxB == <<30, 30, 40, 0>>
RulePxC == <<30, 30, 40, 255>>
RulePxD == <<30, 30, 39, 1>>
RulePxE == <<255, 255, 255, 255>>
RulePixels == {RulePxA, RulePxB, RulePxC, RulePxD, RulePxE}
RulePalettes == {{RulePxA, RulePxE}, {RulePxB, RulePxC}, {RulePxB, RulePxD}}
RuleThresholds == {0, 1, 100, 101, 256}

RuleImages == UNION {ImagesOf(MaxW, MaxH, P) : P \in RulePalettes}

Rules ==
    {PxThreshold(t) : t \in RuleThresholds}
        \cup {InvertedPxThreshold(t) : t \in RuleThresholds}
        \cup {Border(t, d) : <<t, d>> \in RuleThresholds \X (0..MaxDist)}

RuleInit ==
    /\ pc = "ready"
    /\ img \in RuleImages
    /\ opts \in [rule : Rules, size : {NoSize}]
    /\ call = NoCall
    /\ argv = NoArgv
    /\ mat = <<>>
    /\ rowbuf = <<>>
    /\ cur = NoCur
    /\ out = <<>>

\* rl.is_on(&img, x, y), for any coordinate, inside the image or not.
CallIsOn ==
    /\ pc = "ready"
    /\ \E x \in 0..MaxW, y \in 0..MaxH :
           call' = [x |-> x, y |-> y, ret |-> is_on_call(opts.rule, img, x, y)]
    /\ pc' = "returned"
    /\ UNCHANGED <<argv, opts, img, mat, rowbuf, cur, out>>

RuleNext == CallIsOn

SpecRule == RuleInit /\ [][RuleNext]_vars

-----------------------------------------------------------------------------
(* Claims about single calls of is_on, checked under SpecRule. *)

Returned == pc = "returned"
CallInside == in_bounds(img, call.x, call.y)
CallPixel == get_pixel(img, call.x, call.y)

\* The image with the pixel at (x, y) replaced by q.
WithPixel(image, x, y, q) ==
    [image EXCEPT !.px = [r \in DOMAIN image.px |->
        [c \in DOMAIN image.px[r] |->
            IF r = y + 1 /\ c = x + 1 THEN q ELSE image.px[r][c]]]]

\* Every pixel of the image is the same.
Uniform(image) ==
    \A y1 \in 0..(image.height - 1), x1 \in 0..(image.width - 1),
       y2 \in 0..(image.height - 1), x2 \in 0..(image.width - 1) :
        get_pixel(image, x1, y1) = get_pixel(image, x2, y2)

\* C1: for every rule variant with any parameters, every image and every
\* coordinate (x, y) with x >= width or y >= height, is_on returns false and
\* has read no pixel.
C1_OutsideIsOff ==
    (Returned /\ (call.x >= img.width \/ call.y >= img.height))
        => (call.ret.on = FALSE /\ call.ret.reads = {})

\* C1, its case: a Border rule asked about the column right of a one-pixel
\* image, whose left neighbour is inside the image.
C1_Witness ==
    /\ Returned
    /\ opts.rule = Border(0, 1)
    /\ img.width = 1 /\ img.height = 1
    /\ call.x = 1 /\ call.y = 0
    /\ call.ret.on = FALSE

\* C7: for every in-bounds pixel and every t, Threshold(t).is_on is true
\* exactly when the sum of all four channel bytes, alpha included, is >= t;
\* and with t fixed, a pixel whose channel sum is at least as large is on
\* whenever this one is.
C7_ThresholdSumsAllChannels ==
    (Returned /\ CallInside /\ opts.rule.kind = "PxThreshold")
        => LET p == CallPixel
               total == p[1] + p[2] + p[3] + p[4]
           IN  /\ call.ret.on <=> (total >= opts.rule.threshold)
               /\ \A q \in RulePixels :
                      (call.ret.on /\ q[1] + q[2] + q[3] + q[4] >= total)
                          => is_on(opts.rule, WithPixel(img, call.x, call.y, q),
                                   call.x, call.y)

\* C7, its case: a pixel that is on only because alpha is counted (RGB sum
\* 100, alpha 255, threshold 101).
C7_Witness ==
    /\ Returned /\ CallInside
    /\ opts.rule = PxThreshold(101)
    /\ CallPixel = RulePxC
    /\ call.ret.on

\* C8: for every in-bounds pixel and every t, InvertedThreshold(t).is_on is
\* true exactly when the sum of the three RGB channel bytes is <= t, and a
\* pixel that differs only in alpha gets the same result.
C8_InvertedSumsRgbOnly ==
    (Returned /\ CallInside /\ opts.rule.kind = "InvertedPxThreshold")
        => LET p == CallPixel
           IN  /\ call.ret.on <=> (p[1] + p[2] + p[3] <= opts.rule.threshold)
               /\ \A a \in {0, 1, 100, 255} :
                      is_on(opts.rule,
                            WithPixel(img, call.x, call.y, <<p[1], p[2], p[3], a>>),
                            call.x, call.y) = call.ret.on

\* C8, its case: a pixel that is on although its four-channel sum (355) is
\* above the threshold (100), because its RGB sum is 100.
C8_Witness ==
    /\ Returned /\ CallInside
    /\ opts.rule = InvertedPxThreshold(100)
    /\ CallPixel = RulePxC
    /\ call.ret.on

\* C5 as stated: Border(threshold, distance).is_on is false for every pixel
\* when distance = 0, and false for every pixel of an image of uniform colour,
\* for every threshold and distance the grammar accepts.
C5_Original ==
    (Returned /\ opts.rule.kind = "Border"
        /\ (opts.rule.distance = 0 \/ Uniform(img)))
        => call.ret.on = FALSE

\* C5 as amended: Border(threshold, distance).is_on is false for every pixel
\* when distance = 0, for every threshold; and false for every pixel of an
\* image of uniform colour for every distance and every threshold >= 1.
C5_Amended ==
    (Returned /\ opts.rule.kind = "Border"
        /\ (opts.rule.distance = 0
               \/ (Uniform(img) /\ opts.rule.threshold >= 1)))
        => call.ret.on = FALSE

\* C5, its case: a pixel inside a uniform image of more than one pixel, with
\* neighbours sampled (distance 2) against a threshold of 1.
C5_Witness ==
    /\ Returned /\ CallInside
    /\ opts.rule = Border(1, 2)
    /\ Uniform(img) /\ img.width = 2 /\ img.height = 2
    /\ call.ret.on = FALSE

\* The reference rule of C10: a neighbour at a negative coordinate is out of
\* bounds and is skipped.
ReferenceNeighbour(image, x, y, off) ==
    LET nx == x + off[1]
        ny == y + off[2]
    IN  IF nx < 0 \/ ny < 0 \/ ~in_bounds(image, nx, ny)
        THEN None ELSE Some(<<nx, ny>>)

BorderReference(rule, image, x, y) ==
    \E off \in {BorderOffsets(rule.distance)[k] :
                    k \in DOMAIN BorderOffsets(rule.distance)} :
        LET n == ReferenceNeighbour(image, x, y, off)
        IN  /\ n # None
            /\ BorderDiffers(image, get_pixel(image, x, y),
                             unwrap_or(n, <<0, 0>>), rule.threshold)

\* Whether the sample at offset off has a coordinate clamped to 0.
IsClamped(x, y, off) == x + off[1] < 0 \/ y + off[2] < 0

\* C10: for every in-bounds pixel, every distance and every threshold >= 1,
\* Border.is_on as coded (negative neighbour coordinates clamped to 0) returns
\* what the reference rule returns; and, for every threshold, a clamped sample
\* reads the centre pixel or a pixel sampled at a smaller step in the same
\* direction.
C10_ClampAgreesWithReference ==
    (Returned /\ CallInside /\ opts.rule.kind = "Border")
        => LET offs == BorderOffsets(opts.rule.distance)
               x == call.x
               y == call.y
           IN  /\ opts.rule.threshold >= 1
                      => call.ret.on = BorderReference(opts.rule, img, x, y)
               /\ \A k \in DOMAIN offs :
                      (IsClamped(x, y, offs[k])
                          /\ BorderNeighbour(img, x, y, offs[k]) # None)
                          => \/ BorderNeighbour(img, x, y, offs[k]) = Some(<<x, y>>)
                             \/ \E j \in 1..(k - 1) :
                                    /\ offs[j][1] * offs[k][2] = offs[j][2] * offs[k][1]
                                    /\ offs[j][1] * offs[k][1] + offs[j][2] * offs[k][2] > 0
                                    /\ ~IsClamped(x, y, offs[j])
                                    /\ BorderNeighbour(img, x, y, offs[j])
                                           = BorderNeighbour(img, x, y, offs[k])

\* C10, its case: the pixel at x = 1 with distance 2, so that the sample two
\* to the left is clamped onto the pixel at x = 0, which differs from the
\* centre by the threshold.
C10_Witness ==
    /\ Returned /\ CallInside
    /\ opts.rule = Border(1, 2)
    /\ call.x = 1 /\ call.y = 0
    /\ img.width = 2
    /\ get_pixel(img, 0, 0) # get_pixel(img, 1, 0)
    /\ call.ret.on

-----------------------------------------------------------------------------
(* BrailleEncoder *)

\* UTF8 of first (empty) braille character: 0x2800.
OFF_0 == 10240

\* Mutant of BrailleTable: the dots in column-major order.
BrailleTableColumnMajor ==
    << <<0, 0>>, <<1, 0>>, <<2, 0>>, <<3, 0>>,
       <<0, 1>>, <<1, 1>>, <<2, 1>>, <<3, 1>> >>

\* The (dy, dx) array of region_braille, in its order.
BrailleTable ==
    << <<0, 0>>, <<1, 0>>, <<2, 0>>, <<0, 1>>,
       <<1, 1>>, <<2, 1>>, <<3, 0>>, <<3, 1>> >>

\* A closure Fn((u32, u32)) -> Option<bool> is a function on the coordinates
\* where it may answer Some; everywhere else it answers None.
ApplySample(f, v) == IF v \in DOMAIN f THEN f[v] ELSE None

\* ((b as u8) << index) as u32: the shift is done in eight bits.
ShlU8(b, index) == ((IF b THEN 1 ELSE 0) * (2 ^ index)) % 256

region_braille(x, y, f) ==
    OFF_0 + SumSeq([k \in 1..Len(BrailleTable) |->
                LET v == <<y * 4 + BrailleTable[k][1], x * 2 + BrailleTable[k][2]>>
                    \* enumerate() counts from 0
                    index == k - 1
                IN  ShlU8(unwrap_or(ApplySample(f, v), FALSE), index)])

-----------------------------------------------------------------------------
(* SpecBraille: single calls of region_braille. *)

Cells == (0..MaxCell) \X (0..MaxCell)
OptionBool == {None, Some(TRUE), Some(FALSE)}

\* The samples that answer dots[<<dy, dx>>] inside the cell origin = <<ox, oy>>
\* and None outside of it.
SampleOfDots(origin, dots) ==
    [v \in (0..(4 * MaxCell + 3)) \X (0..(2 * MaxCell + 1)) |->
        LET dy == v[1] - 4 * origin[2]
            dx == v[2] - 2 * origin[1]
        IN  IF dy \in 0..3 /\ dx \in 0..1 THEN dots[<<dy, dx>>] ELSE None]

BrailleInit ==
    /\ pc = "ready"
    /\ \E origin \in Cells, dots \in [(0..3) \X (0..1) -> OptionBool] :
           call = [f |-> SampleOfDots(origin, dots), x |-> 0, y |-> 0]
    /\ argv = NoArgv
    /\ opts = NoOpts
    /\ img = NoImage
    /\ mat = <<>>
    /\ rowbuf = <<>>
    /\ cur = NoCur
    /\ out = <<>>

\* region_braille(x, y, f), for any cell.
CallRegionBraille ==
    /\ pc = "ready"
    /\ \E c \in Cells :
           call' = [f |-> call.f, x |-> c[1], y |-> c[2],
                    ret |-> region_braille(c[1], c[2], call.f)]
    /\ pc' = "returned"
    /\ UNCHANGED <<argv, opts, img, mat, rowbuf, cur, out>>

BrailleNext == CallRegionBraille

SpecBraille == BrailleInit /\ [][BrailleNext]_vars

-----------------------------------------------------------------------------
(* Claims about single calls of region_braille, checked under SpecBraille. *)

\* The position of the dot of bit i in cell (x, y), as (row, column):
\* bit0=(0,0), bit1=(1,0), bit2=(2,0), bit3=(0,1), bit4=(1,1), bit5=(2,1),
\* bit6=(3,0), bit7=(3,1).
DotOfBit(x, y, i) ==
    LET dy == CASE i = 0 -> 0 [] i = 1 -> 1 [] i = 2 -> 2 [] i = 3 -> 0
                [] i = 4 -> 1 [] i = 5 -> 2 [] i = 6 -> 3 [] i = 7 -> 3
        dx == IF i \in {0, 1, 2, 6} THEN 0 ELSE 1
    IN  <<y * 4 + dy, x * 2 + dx>>

DotIsOn(f, x, y, i) == ApplySample(f, DotOfBit(x, y, i)) = Some(TRUE)

\* The sample f with the answer for the dot of bit i flipped between on and
\* not on.
FlipDot(f, x, y, i) ==
    [f EXCEPT ![DotOfBit(x, y, i)] =
        IF DotIsOn(f, x, y, i) THEN Some(FALSE) ELSE Some(TRUE)]

\* C2: region_braille(x, y, sample) is 0x2800 plus 2^i for each bit i whose
\* dot is sampled Some(true), Some(false) and None adding nothing; so it lies
\* in [0x2800, 0x28FF], is 0x2800 when no dot is on and 0x28FF when all are,
\* and flipping the sample of bit i alone changes it by exactly 2^i.
C2_BrailleBits ==
    Returned
        => LET f == call.f
               x == call.x
               y == call.y
               bit(i) == IF DotIsOn(f, x, y, i) THEN 2 ^ i ELSE 0
           IN  /\ call.ret = 10240 + bit(0) + bit(1) + bit(2) + bit(3)
                                   + bit(4) + bit(5) + bit(6) + bit(7)
               /\ call.ret >= 10240 /\ call.ret <= 10495
               /\ (\A i \in 0..7 : ~DotIsOn(f, x, y, i)) => call.ret = 10240
               /\ (\A i \in 0..7 : DotIsOn(f, x, y, i)) => call.ret = 10495
               /\ \A i \in 0..7 :
                      region_braille(x, y, FlipDot(f, x, y, i)) - call.ret
                          = IF DotIsOn(f, x, y, i) THEN -(2 ^ i) ELSE 2 ^ i

\* C2, its case: in cell (1, 1) the top right dot (bit 3) and the bottom left
\* dot (bit 6) are on, another is Some(false), another None: 0x2800 + 8 + 64.
C2_Witness ==
    /\ Returned
    /\ call.x = 1 /\ call.y = 1
    /\ ApplySample(call.f, <<4, 3>>) = Some(TRUE)
    /\ ApplySample(call.f, <<7, 2>>) = Some(TRUE)
    /\ ApplySample(call.f, <<4, 2>>) = Some(FALSE)
    /\ ApplySample(call.f, <<5, 2>>) = None
    /\ call.ret = 10240 + 8 + 64

-----------------------------------------------------------------------------
(* The parsers of the command line. *)

AsciiDigits == {"0", "1", "2", "3", "4", "5", "6", "7", "8", "9"}
\* The regex class \d is Unicode-aware: it also matches decimal digits outside
\* ASCII, such as U+0663 (ARABIC-INDIC DIGIT THREE), which from_str rejects.
RegexDigits == AsciiDigits \cup {"U+0663"}

DigitValue(c) ==
    CASE c = "0" -> 0 [] c = "1" -> 1 [] c = "2" -> 2 [] c = "3" -> 3
      [] c = "4" -> 4 [] c = "5" -> 5 [] c = "6" -> 6 [] c = "7" -> 7
      [] c = "8" -> 8 [] c = "9" -> 9

\* The digit loop of from_str: checked_mul(10) then checked_add(digit), None
\* on an invalid digit or on overflow of max = maxDiv10 * 10 + maxMod10.
RECURSIVE ParseDigits(_, _, _, _)
ParseDigits(s, acc, maxDiv10, maxMod10) ==
    IF s = <<>> THEN Some(acc)
    ELSE IF Head(s) \notin AsciiDigits THEN None
    ELSE IF acc > maxDiv10 THEN None
    ELSE IF acc = maxDiv10 /\ DigitValue(Head(s)) > maxMod10 THEN None
    ELSE ParseDigits(Tail(s), acc * 10 + DigitValue(Head(s)), maxDiv10, maxMod10)

\* u32::from_str: an optional "+", then at least one digit, at most 4294967295.
u32_from_str(s) ==
    LET body == IF s # <<>> /\ Head(s) = "+" THEN Tail(s) ELSE s
    IN  IF body = <<>> THEN None ELSE ParseDigits(body, 0, 429496729, 5)

\* i32::from_str of a string without "-" (the rule grammar passes digits
\* only): an optional "+", then at least one digit, at most 2147483647.
i32_from_str(s) ==
    LET body == IF s # <<>> /\ Head(s) = "+" THEN Tail(s) ELSE s
    IN  IF body = <<>> THEN None ELSE ParseDigits(body, 0, 214748364, 7)

\* str::split("x"): the parts between the separators, at least one.
RECURSIVE SplitX(_, _)
SplitX(s, part) ==
    IF s = <<>> THEN <<part>>
    ELSE IF Head(s) = "x" THEN <<part>> \o SplitX(Tail(s), <<>>)
    ELSE SplitX(Tail(s), Append(part, Head(s)))

Sized(w, h) == [kind |-> "Sized", width |-> w, height |-> h]

\* ImageSize::from_str.  err is "" on success.
ImageSize_from_str(s) ==
    IF s = <<"_">> THEN [err |-> "", size |-> NoSize]
    ELSE LET it == SplitX(s, <<>>)
         IN  IF Len(it) >= 2
             THEN LET w == u32_from_str(it[1])
                      h == u32_from_str(it[2])
                  IN  IF w = None \/ h = None
                      THEN [err |-> "ParseIntError", size |-> NoSize]
                      ELSE [err |-> "", size |-> Sized(unwrap_or(w, 0), unwrap_or(h, 0))]
             ELSE [err |-> "UnknownSizeFormat", size |-> NoSize]

IsRegexDigits(s) == s # <<>> /\ \A i \in DOMAIN s : s[i] \in RegexDigits

\* Regex ^name\((\d+)\)$: the capture, or None without a match.
MatchOneArg(s, name) ==
    IF /\ Len(s) >= 4
       /\ s[1] = name /\ s[2] = "(" /\ s[Len(s)] = ")"
       /\ IsRegexDigits(SubSeq(s, 3, Len(s) - 1))
    THEN Some(SubSeq(s, 3, Len(s) - 1)) ELSE None

\* Regex ^name\((\d+),(\d+)\)$: the two captures, or None without a match.
MatchTwoArgs(s, name) ==
    IF /\ Len(s) >= 6
       /\ s[1] = name /\ s[2] = "(" /\ s[Len(s)] = ")"
       /\ \E k \in 4..(Len(s) - 2) :
              /\ s[k] = ","
              /\ IsRegexDigits(SubSeq(s, 3, k - 1))
              /\ IsRegexDigits(SubSeq(s, k + 1, Len(s) - 1))
    THEN LET k == CHOOSE k \in 4..(Len(s) - 2) : s[k] = ","
         IN  Some(<<SubSeq(s, 3, k - 1), SubSeq(s, k + 1, Len(s) - 1)>>)
    ELSE None

\* OnOffRule::from_str.  err is "" on success.
OnOffRule_from_str(s) ==
    LET bad(e) == [err |-> e, rule |-> PxThreshold(0)]
        good(r) == [err |-> "", rule |-> r]
        thr == MatchOneArg(s, "Threshold")
        inv == MatchOneArg(s, "InvertedThreshold")
        bor == MatchTwoArgs(s, "Border")
    IN  IF thr # None
        THEN LET t == i32_from_str(unwrap_or(thr, <<>>))
             IN  IF t = None THEN bad("ParseIntError")
                 ELSE good(PxThreshold(unwrap_or(t, 0)))
        ELSE IF inv # None
        THEN LET t == i32_from_str(unwrap_or(inv, <<>>))
             IN  IF t = None THEN bad("ParseIntError")
                 ELSE good(InvertedPxThreshold(unwrap_or(t, 0)))
        ELSE IF bor # None
        THEN LET t == i32_from_str(unwrap_or(bor, <<>>)[1])
                 d == i32_from_str(unwrap_or(bor, <<>>)[2])
             IN  IF t = None \/ d = None THEN bad("ParseIntError")
                 ELSE good(Border(unwrap_or(t, 0), unwrap_or(d, 0)))
        ELSE bad("UnknownFormat")

-----------------------------------------------------------------------------
(* SpecMain: main, from the command line to the last line of output. *)

\* The command lines tried: well-formed rules and sizes, and malformed ones.
RuleStrings ==
    { <<"Threshold", "(", "0", ")">>,
      <<"Threshold", "(", "1", "0", "0", ")">>,
      <<"InvertedThreshold", "(", "1", "0", "0", ")">>,
      <<"Border", "(", "1", ",", "1", ")">>,
      <<"Threshold", "(", ")">>,
      <<"Threshold", "(", "-", "1", ")">>,
      <<"Threshold", "(", "U+0663", ")">>,
      <<"Threshold", "(", "2", "1", "4", "7", "4", "8", "3", "6", "4", "8", ")">>,
      <<"Border", "(", "1", ")">>,
      <<"Border", "(", "1", ",", ")">>,
      <<"Edge", "(", "1", ")">> }

SizeStrings ==
    { <<"_">>,
      <<"2", "x", "4">>,
      <<"+", "2", "x", "4", "x", "9">>,
      <<"2", "4">>,
      <<"x", "4">>,
      <<"2", "x", "-", "1">>,
      <<"9", "9", "9", "9", "9", "9", "9", "9", "9", "9", "x", "1">> }

\* The pixels of the decoded images: a transparent black one (sum 0) and an
\* opaque grey one (sum 855).
MainPxDark == <<0, 0, 0, 0>>
MainPxLight == <<200, 200, 200, 255>>
MainPixels == {MainPxDark, MainPxLight}

MainImages ==
    UNION {[width : {d[1]}, height : {d[2]},
            px : [1..d[2] -> [1..d[1] -> MainPixels]]] :
               d \in {e \in (0..MaxMainW) \X (0..MaxMainH) :
                          e[1] * e[2] <= MaxMainPixels}}

MainInit ==
    /\ pc = "start"
    /\ argv \in [rule : RuleStrings, size : SizeStrings]
    /\ opts = NoOpts
    /\ img = NoImage
    /\ mat = <<>>
    /\ rowbuf = <<>>
    /\ cur = NoCur
    /\ out = <<>>
    /\ call = NoCall

\* Opts::parse() with both options well-formed.
ParseOk ==
    /\ pc = "start"
    /\ OnOffRule_from_str(argv.rule).err = ""
    /\ ImageSize_from_str(argv.size).err = ""
    /\ opts' = [rule |-> OnOffRule_from_str(argv.rule).rule,
                size |-> ImageSize_from_str(argv.size).size]
    /\ pc' = "parsed"
    /\ UNCHANGED <<argv, img, mat, rowbuf, cur, out, call>>

\* Opts::parse() with a malformed option: clap reports it and exits.
ParseFail ==
    /\ pc = "start"
    /\ ~(OnOffRule_from_str(argv.rule).err = ""
            /\ ImageSize_from_str(argv.size).err = "")
    /\ pc' = "failed"
    /\ UNCHANGED <<argv, opts, img, mat, rowbuf, cur, out, call>>

\* image::open(opts.input)? returning an image.
OpenOk ==
    /\ pc = "parsed"
    /\ img' \in MainImages
    /\ pc' = "opened"
    /\ UNCHANGED <<argv, opts, mat, rowbuf, cur, out, call>>

\* image::open(opts.input)? returning an error, which main returns.
OpenFail ==
    /\ pc = "parsed"
    /\ pc' = "failed"
    /\ UNCHANGED <<argv, opts, img, mat, rowbuf, cur, out, call>>

NeedsResize ==
    /\ opts.size.kind = "Sized"
    /\ (opts.size.width # img.width \/ opts.size.height # img.height)

\* The match on opts.size keeping the image.
KeepImage ==
    /\ pc = "opened"
    /\ ~NeedsResize
    /\ pc' = "build"
    /\ cur' = [x |-> 0, y |-> 0]
    /\ UNCHANGED <<argv, opts, img, mat, rowbuf, out, call>>

\* img.resize(width, height, FilterType::Triangle): some image that fits in
\* width by height (the library keeps the aspect ratio).
ResizeImage ==
    /\ pc = "opened"
    /\ NeedsResize
    /\ \E new \in MainImages :
           /\ new.width <= opts.size.width
           /\ new.height <= opts.size.height
           /\ img' = new
    /\ pc' = "build"
    /\ cur' = [x |-> 0, y |-> 0]
    /\ UNCHANGED <<argv, opts, mat, rowbuf, out, call>>

\* (0..width).into_par_iter() of row cur.y: one empty output slot per column.
StartRow ==
    /\ pc = "build"
    /\ cur.y < img.height
    /\ rowbuf' = [i \in 1..img.width |-> None]
    /\ pc' = "row"
    /\ UNCHANGED <<argv, opts, img, mat, cur, out, call>>

\* Mutant of StoreResult: the results are pushed in the order they complete.
StoreResultInCompletionOrder(buf, x, v) ==
    LET free == CHOOSE i \in DOMAIN buf :
                    buf[i] = None /\ \A j \in 1..(i - 1) : buf[j] # None
    IN  [buf EXCEPT ![free] = Some(v)]

\* collect() of an indexed parallel iterator: the result of column x goes to
\* slot x.
StoreResult(buf, x, v) == [buf EXCEPT ![x + 1] = Some(v)]

\* A worker evaluates one column of the row, any column not yet done.
EvalColumn ==
    /\ pc = "row"
    /\ \E x \in 0..(img.width - 1) :
           /\ rowbuf[x + 1] = None
           /\ rowbuf' = StoreResult(rowbuf, x, is_on(opts.rule, img, x, cur.y))
    /\ UNCHANGED <<pc, argv, opts, img, mat, cur, out, call>>

\* All columns are done: the row joins the matrix.
CollectRow ==
    /\ pc = "row"
    /\ \A i \in DOMAIN rowbuf : rowbuf[i] # None
    /\ mat' = Append(mat, [i \in DOMAIN rowbuf |-> unwrap_or(rowbuf[i], FALSE)])
    /\ rowbuf' = <<>>
    /\ cur' = [cur EXCEPT !.y = cur.y + 1]
    /\ pc' = "build"
    /\ UNCHANGED <<argv, opts, img, out, call>>

\* Mutant of FinishBuild: the output starts while rows are still missing.
FinishBuildEarly ==
    /\ pc = "build"
    /\ cur.y <= img.height
    /\ pc' = "emit"
    /\ cur' = [x |-> 0, y |-> 0]
    /\ UNCHANGED <<argv, opts, img, mat, rowbuf, out, call>>

\* The row iterator (0..height) is exhausted: mat is collected.
FinishBuild ==
    /\ pc = "build"
    /\ cur.y = img.height
    /\ pc' = "emit"
    /\ cur' = [x |-> 0, y |-> 0]
    /\ UNCHANGED <<argv, opts, img, mat, rowbuf, out, call>>

\* Mutant of LastCellRow: the range 0..height/4 without its end.
LastCellRowExclusive(height) == (height \div 4) - 1

\* The last values of the ranges 0..=height/4 and 0..=width/2.
LastCellRow(height) == height \div 4
LastCellColumn(width) == width \div 2

\* Whether mat[y][x] exists; indexing past a Vec panics.
MatHas(m, x, y) == y + 1 \in DOMAIN m /\ x + 1 \in DOMAIN m[y + 1]

\* The closure main gives to region_braille, on the positions main can ask.
SampleOfMatrix(image, m) ==
    [v \in (0..(image.height + 3)) \X (0..(image.width + 1)) |->
        IF ~in_bounds(image, v[2], v[1]) THEN None
        ELSE Some(m[v[1] + 1][v[2] + 1])]

\* Whether evaluating the cell (x, y) indexes mat out of range.
CellPanics(image, m, x, y) ==
    \E k \in DOMAIN BrailleTable :
        LET r == y * 4 + BrailleTable[k][1]
            c == x * 2 + BrailleTable[k][2]
        IN  in_bounds(image, c, r) /\ ~MatHas(m, c, r)

\* std::char::from_u32: None for a surrogate or a value above 0x10FFFF.
char_from_u32(v) ==
    IF v > 1114111 \/ (v >= 55296 /\ v <= 57343) THEN None ELSE Some(v)

\* The line break println!() writes.
LineBreak == 10

\* One cell of the row cur.y: print!("{}", chr), or a panic of the indexing
\* or of the unwrap.
EmitCell ==
    /\ pc = "emit"
    /\ cur.y <= LastCellRow(img.height)
    /\ cur.x <= LastCellColumn(img.width)
    /\ IF CellPanics(img, mat, cur.x, cur.y)
       THEN pc' = "panicked" /\ UNCHANGED <<out, cur>>
       ELSE LET v == region_braille(cur.x, cur.y, SampleOfMatrix(img, mat))
                chr == char_from_u32(v)
            IN  IF chr = None
                THEN pc' = "panicked" /\ UNCHANGED <<out, cur>>
                ELSE /\ out' = Append(out, unwrap_or(chr, 0))
                     /\ cur' = [cur EXCEPT !.x = cur.x + 1]
                     /\ pc' = pc
    /\ UNCHANGED <<argv, opts, img, mat, rowbuf, call>>

\* println!() after the last cell of the row.
EmitLineBreak ==
    /\ pc = "emit"
    /\ cur.y <= LastCellRow(img.height)
    /\ cur.x > LastCellColumn(img.width)
    /\ out' = Append(out, LineBreak)
    /\ cur' = [x |-> 0, y |-> cur.y + 1]
    /\ UNCHANGED <<pc, argv, opts, img, mat, rowbuf, call>>

\* Ok(())
Finish ==
    /\ pc = "emit"
    /\ cur.y > LastCellRow(img.height)
    /\ pc' = "done"
    /\ UNCHANGED <<argv, opts, img, mat, rowbuf, cur, out, call>>

MainNext ==
    \/ ParseOk
    \/ ParseFail
    \/ OpenOk
    \/ OpenFail
    \/ KeepImage
    \/ ResizeImage
    \/ StartRow
    \/ EvalColumn
    \/ CollectRow
    \/ FinishBuild
    \/ EmitCell
    \/ EmitLineBreak
    \/ Finish

SpecMain == MainInit /\ [][MainNext]_vars

-----------------------------------------------------------------------------
(* Claims about main, checked under SpecMain. *)

\* The matrix a fully sequential evaluation builds: row by row, column by
\* column.
SequentialMatrix(rule, image) ==
    [r \in 1..image.height |->
        [c \in 1..image.width |-> is_on(rule, image, c - 1, r - 1)]]

MatrixStarted == pc \in {"build", "row", "emit", "done", "panicked"}
MatrixBuilt == pc \in {"emit", "done", "panicked"}

\* C3: the matrix has height rows of width entries with matrix[y][x] =
\* rule.is_on(image, x, y), whatever order the workers evaluate the columns
\* of a row in: every slot a worker has filled, every row collected and the
\* finished matrix are those of the sequential evaluation.
C3_MatrixIndependentOfOrder ==
    /\ MatrixStarted =>
           /\ Len(mat) <= img.height
           /\ \A r \in DOMAIN mat : mat[r] = SequentialMatrix(opts.rule, img)[r]
    /\ pc = "row" =>
           /\ Len(rowbuf) = img.width
           /\ \A i \in DOMAIN rowbuf :
                  rowbuf[i] # None
                      => rowbuf[i] = Some(is_on(opts.rule, img, i - 1, cur.y))
    /\ MatrixBuilt => mat = SequentialMatrix(opts.rule, img)

\* C3, its case: a row of three columns whose last column was evaluated
\* before its first, the two with different results.
C3_Witness ==
    /\ pc = "row"
    /\ img.width = 3
    /\ opts.rule.kind = "Border"
    /\ rowbuf[1] = None
    /\ rowbuf[3] = Some(TRUE)
    /\ is_on(opts.rule, img, 0, cur.y) = FALSE

\* The case of C4: a 2 by 4 image with all pixels identical, rendered with
\* Threshold(0), at the end of the run.
C4_Case ==
    /\ pc = "done"
    /\ img.width = 2 /\ img.height = 4
    /\ Uniform(img)
    /\ opts.rule = PxThreshold(0)

\* C4 as stated: in that case every pixel is on and the whole output is the
\* single character 0x28FF followed by a line break.
C4_Original ==
    C4_Case =>
        /\ \A r \in DOMAIN mat : \A c \in DOMAIN mat[r] : mat[r][c] = TRUE
        /\ out = <<10495, 10>>

\* C4 as amended: in that case every pixel is on and the output is two lines
\* of two characters: 0x28FF and 0x2800, a line break, 0x2800 and 0x2800, a
\* line break (the ranges 0..=height/4 and 0..=width/2 add an empty row and an
\* empty column of cells).
C4_Amended ==
    C4_Case =>
        /\ Len(mat) = 4
        /\ \A r \in DOMAIN mat :
               Len(mat[r]) = 2 /\ \A c \in DOMAIN mat[r] : mat[r][c] = TRUE
        /\ out = <<10495, 10240, 10, 10240, 10240, 10>>

\* C4, its case: such a run has ended, its pixels transparent black (channel
\* sum 0, the threshold itself).
C4_Witness ==
    /\ C4_Case
    /\ get_pixel(img, 0, 0) = MainPxDark
    /\ Len(out) = 6

\* The code point C6 expects at cell (cx, cy): 0x2800 plus bit i for each dot
\* inside the image whose matrix entry is on.
ExpectedGlyph(image, m, cx, cy) ==
    LET on(i) ==
            LET v == DotOfBit(cx, cy, i)
            IN  v[2] < image.width /\ v[1] < image.height /\ m[v[1] + 1][v[2] + 1]
        bit(i) == IF on(i) THEN 2 ^ i ELSE 0
    IN  10240 + bit(0) + bit(1) + bit(2) + bit(3) + bit(4) + bit(5) + bit(6) + bit(7)

\* C6: for an image of width w and height h the output is floor(h/4)+1 lines
\* of floor(w/2)+1 braille characters and a line break each, the character of
\* cell (cx, cy) encoding the matrix entries of its dots inside the image and
\* off for those outside; a 1x1 image whose pixel is off renders as 0x2800 and
\* a line break.
C6_Rendering ==
    pc = "done" =>
        LET lines == (img.height \div 4) + 1
            cols == (img.width \div 2) + 1
        IN  /\ Len(out) = lines * (cols + 1)
            /\ \A cy \in 0..(lines - 1) :
                   /\ \A cx \in 0..(cols - 1) :
                          out[cy * (cols + 1) + cx + 1]
                              = ExpectedGlyph(img, mat, cx, cy)
                   /\ out[cy * (cols + 1) + cols + 1] = 10
            /\ (img.width = 1 /\ img.height = 1 /\ mat = << <<FALSE>> >>)
                   => out = <<10240, 10>>

\* C6, its case: a 1x1 image whose pixel is off under Threshold(100) has been
\* rendered.
C6_Witness ==
    /\ pc = "done"
    /\ img.width = 1 /\ img.height = 1
    /\ opts.rule = PxThreshold(100)
    /\ get_pixel(img, 0, 0) = MainPxDark
    /\ out = <<10240, 10>>

\* The steps of main in their order, and the two steps that end the run with
\* an error.
StepsInOrder ==
    { <<"start", "parsed">>, <<"parsed", "opened">>, <<"opened", "build">>,
      <<"build", "row">>, <<"row", "build">>, <<"build", "emit">>,
      <<"emit", "done">> }
FatalSteps == { <<"start", "failed">>, <<"parsed", "failed">> }

MatrixComplete ==
    /\ Len(mat) = img.height
    /\ \A r \in DOMAIN mat : Len(mat[r]) = img.width

\* C9: every run goes parse, decode, optional resize, build the whole matrix,
\* emit.  Nothing is written before the matrix is complete, a fatal error
\* (malformed rule or size, decode failure) ends the run with nothing
\* written, and once something is written no step fails.
C9_BatchOrder ==
    /\ [](out # <<>> => (pc \in {"emit", "done"} /\ MatrixComplete))
    /\ [](pc \in {"failed", "panicked"} => out = <<>>)
    /\ [][pc' # pc => <<pc, pc'>> \in StepsInOrder \cup FatalSteps]_vars
    /\ [][out' # out => (pc = "emit" /\ MatrixComplete)]_vars
    /\ [][out # <<>> => pc' \notin {"failed", "panicked"}]_vars
    /\ [][(pc = "opened" /\ pc' = "build" /\ img' # img) => NeedsResize]_vars

\* C9, its case: a run with a size option that resized the image, built the
\* matrix and wrote its output to the end.
C9_Witness ==
    /\ pc = "done"
    /\ opts.size = Sized(2, 4)
    /\ img.width = 1 /\ img.height = 2
    /\ MatrixComplete
    /\ Len(out) = 2

=============================================================================
